---- MODULE Spec2Model ----
(***************************************************************************)
(* Model of the chunking engine of learnhub:                               *)
(*   scripts/chunk_file.py          single-file mode                       *)
(*   scripts/chunk_repo_unified.py  repository mode                        *)
(* Text is a sequence of one-character strings.  The external splitter     *)
(* (code_splitter) and the external parser (tree-sitter) are environment:  *)
(* what they return for a file is drawn from bounded sets.  The generated  *)
(* uuid, is_test_file and zone_guess of a chunk are left out: no property  *)
(* below reads them.                                                       *)
(***************************************************************************)
EXTENDS Integers, Sequences, FiniteSets, TLC

\* ---------------------------------------------------------------- bounds
\* Longest text handed to chunk_markdown by a direct call.
MaxLen == 5
\* Most lines of a text handed to chunk_dockerfile by a direct call.
MaxPieces == 3
\* Most nodes below the root of a syntax tree.
MaxNodes == 2
\* Most triples the external splitter returns for one file.
MaxTriples == 2
\* Most files in the walked directory tree.
MaxFiles == 2

\* ---------------------------------------------------------------- text
NL == "\n"
SP == " "

\* str.isspace on the characters of the model's alphabets.
IsSpace(c) == c \in {SP, NL}

\* All texts of length at most n over the alphabet.
Texts(alphabet, n) == UNION {[1..k -> alphabet] : k \in 0..n}

\* s[i:j] of Python, for 0-based i >= 0 and exclusive j >= 0: a bound past the
\* end is the end.
Slice(s, i, j) ==
  LET hi == IF j > Len(s) THEN Len(s) ELSE j
  IN  IF hi <= i THEN <<>> ELSE SubSeq(s, i + 1, hi)

\* s.count(c)
Count(s, c) == Len(SelectSeq(s, LAMBDA x : x = c))

\* s.strip(): the text between the first and the last non-space character.
Strip(s) ==
  LET keep == {i \in 1..Len(s) : ~IsSpace(s[i])}
  IN  IF keep = {} THEN <<>>
      ELSE LET lo == CHOOSE i \in keep : \A j \in keep : i <= j
               hi == CHOOSE i \in keep : \A j \in keep : j <= i
           IN  SubSeq(s, lo, hi)

\* hay.find(needle): the 0-based index of the first occurrence, -1 if none.
Find(hay, needle) ==
  LET at == {i \in 0..(Len(hay) - Len(needle)) :
               Slice(hay, i, i + Len(needle)) = needle}
  IN  IF at = {} THEN 0 - 1
      ELSE CHOOSE i \in at : \A j \in at : i <= j

\* len(s.splitlines()): a final newline ends the last line, it starts no new one.
SplitLinesLen(s) ==
  Count(s, NL) + (IF Len(s) > 0 /\ s[Len(s)] # NL THEN 1 ELSE 0)

\* The text of a string literal, character by character.
FROM_ == <<"F", "R", "O", "M", SP>>
RUN_ == <<"R", "U", "N", SP>>
COPY_ == <<"C", "O", "P", "Y", SP>>
ARG_ == <<"A", "R", "G", SP>>
ENV_ == <<"E", "N", "V", SP>>
ENTRYPOINT_ == <<"E", "N", "T", "R", "Y", "P", "O", "I", "N", "T", SP>>
CMD_ == <<"C", "M", "D", SP>>
WORKDIR_ == <<"W", "O", "R", "K", "D", "I", "R", SP>>

\* The alternatives of the look-ahead of chunk_dockerfile's pattern.
DockerKeywords == {RUN_, ARG_, ENV_, COPY_, ENTRYPOINT_, CMD_, FROM_, WORKDIR_}

\* ------------------------------------------------------- regular expressions
\* '^' under re.MULTILINE: the start of the text or just after a newline
\* (p is a 1-based position).
LineStart(s, p) == p = 1 \/ (p > 1 /\ p - 1 <= Len(s) /\ s[p - 1] = NL)

\* The first position at or after p that holds no white space (\s+ is greedy).
RECURSIVE SpaceEnd(_, _)
SpaceEnd(s, p) == IF p <= Len(s) /\ IsSpace(s[p]) THEN SpaceEnd(s, p + 1) ELSE p

\* ^#{2}\s+ of the mutant: level-3 headings are not matched.
MdMatchEnd_level2(s, p) ==
  IF /\ LineStart(s, p)
     /\ p + 2 <= Len(s)
     /\ s[p] = "#" /\ s[p + 1] = "#" /\ IsSpace(s[p + 2])
  THEN SpaceEnd(s, p + 2)
  ELSE 0

\* A match of ^#{2,3}\s+ starting at position p: the position after it, 0 if
\* none.  Three marks are tried first; two marks match only when white space
\* follows the second.
MdMatchEnd(s, p) ==
  LET hash(q) == q <= Len(s) /\ s[q] = "#"
      space(q) == q <= Len(s) /\ IsSpace(s[q])
  IN  IF ~LineStart(s, p) THEN 0
      ELSE IF hash(p) /\ hash(p + 1) /\ hash(p + 2) /\ space(p + 3)
             THEN SpaceEnd(s, p + 3)
      ELSE IF hash(p) /\ hash(p + 1) /\ space(p + 2)
             THEN SpaceEnd(s, p + 2)
      ELSE 0

\* A pattern whose look-ahead knows RUN only.
DockerMatchEnd_runOnly(s, p) ==
  IF p <= Len(s) /\ s[p] = NL /\ Slice(s, p, p + Len(RUN_)) = RUN_
  THEN p + 1
  ELSE 0

\* A match of \n(?=RUN |ARG |...) starting at position p: the position after
\* the newline (the look-ahead consumes nothing), 0 if none.
DockerMatchEnd(s, p) ==
  IF /\ p <= Len(s)
     /\ s[p] = NL
     /\ \E kw \in DockerKeywords : Slice(s, p, p + Len(kw)) = kw
  THEN p + 1
  ELSE 0

\* re.split(pattern, s), where matchEnd[p] is the position after the match
\* of the pattern that starts at p, 0 if none starts there: the scan looks
\* for the leftmost match at or after its position, cuts the piece before
\* it and goes on after the match.
ReSplit(s, matchEnd) ==
  LET pieces[from \in 1..(Len(s) + 1)] ==
        IF \A p \in from..Len(s) : matchEnd[p] = 0
        THEN <<SubSeq(s, from, Len(s))>>
        ELSE LET first == CHOOSE p \in from..Len(s) :
                            /\ matchEnd[p] # 0
                            /\ \A q \in from..(p - 1) : matchEnd[q] = 0
             IN  <<SubSeq(s, from, first - 1)>> \o pieces[matchEnd[first]]
  IN  pieces[1]

\* ------------------------------------------------------------ file names
\* A file of the walked tree: the directories below the root, the base name
\* as stem and extension, whether open(..., encoding='utf-8').read() succeeds,
\* the decoded content, and what the external collaborators answer for it:
\* tree, the syntax tree parser.parse returns, and split, what
\* TiktokenSplitter.split returns or that it raises.

\* os.path.basename
Basename(f) == f.stem \o f.ext

\* str.lower on the extensions of the model.
Lower(ext) ==
  CASE ext = ".MD" -> ".md"
    [] ext = ".TS" -> ".ts"
    [] ext = ".PY" -> ".py"
    [] ext = ".XYZ" -> ".xyz"
    [] OTHER -> ext

\* os.path.splitext(file_path)[1].lower(): a leading dot starts no extension.
Extension(f) == IF f.stem = "" THEN "" ELSE Lower(f.ext)

\* os.path.join(root, file), as path components, for a walk rooted at base.
JoinPath(base, f) == base \o f.dirs \o <<Basename(f)>>

\* os.path.relpath(file_path, base_dir) for a path below base_dir.
get_relative_path(file_path, base_dir) ==
  SubSeq(file_path, Len(base_dir) + 1, Len(file_path))

\* os.path.dirname
Dirname(path) == SubSeq(path, 1, Len(path) - 1)

\* ------------------------------------------------------------- dispatch maps
CODE_SPLITTER_EXTENSIONS ==
  (".py" :> "python") @@ (".go" :> "golang") @@ (".rs" :> "rust")
    @@ (".md" :> "markdown")

TREE_SITTER_EXTENSIONS ==
  (".ts" :> "typescript") @@ (".js" :> "typescript") @@ (".tsx" :> "tsx")
    @@ (".jsx" :> "tsx") @@ (".java" :> "java") @@ (".cjs" :> "typescript")
    @@ (".baml" :> "typescript")

NON_CODE_EXTENSIONS ==
  ("Dockerfile" :> "dockerfile") @@ (".yaml" :> "config")
    @@ (".yml" :> "config") @@ (".toml" :> "config") @@ (".env" :> "config")

\* The grammars the start-up loop asks for, in its order.
GrammarList == <<"typescript", "tsx", "java">>
GrammarNames == {GrammarList[i] : i \in 1..Len(GrammarList)}

\* The start-up loop that fills TREE_SITTER_PARSERS: answers[i] is what
\* get_parser does for the i-th grammar: "parser" (it returns one), "none" (it
\* returns a false value, the grammar is skipped) or "raise" (the exception
\* ends the loop and the grammars after it are never asked for).
LoadParsers(answers) ==
  {GrammarList[i] : i \in {j \in 1..Len(GrammarList) :
     /\ answers[j] = "parser"
     /\ \A k \in 1..j : answers[k] # "raise"}}

\* tree_sitter_languages.get_parser returns a parser or raises.
GetParserAnswers == [1..Len(GrammarList) -> {"parser", "raise"}]

\* The allow-list of node kinds of a grammar.
NodeTypes(language) ==
  IF language \in {"typescript", "tsx"}
  THEN {"function_declaration", "method_definition", "class_declaration",
        "interface_declaration", "type_alias_declaration", "enum_declaration",
        "variable_declaration", "export_statement", "import_statement",
        "jsx_element", "jsx_self_closing_element"}
  ELSE IF language = "java" THEN {"method_declaration", "class_declaration"}
  ELSE {}

\* -------------------------------------------------------------- chunk model
\* Where the code binds the result of a call to a name and reads it more
\* than once, the model binds it with x \in {call} and takes the one value
\* of the set of results, CHOOSE result \in {... : x \in {call}} : TRUE, so
\* that the call is evaluated once.

\* What a call returns: the chunks, or that it raised; a call that raised
\* keeps in chunks what it had built, which the exception throws away.
Ok(chunks) == [raised |-> FALSE, chunks |-> chunks, error |-> ""]
Raised(built, error) == [raised |-> TRUE, chunks |-> built, error |-> error]

\* CodeChunk.__post_init__ of the mutant: the line bounds are not validated.
PostInitOK_nolines(start_line, end_line, size) == size > 0

\* CodeChunk.__post_init__: TRUE when no ValueError is raised.
PostInitOK(start_line, end_line, size) ==
  /\ start_line > 0
  /\ end_line >= start_line
  /\ size > 0

\* str(e) of the ValueError of CodeChunk.__post_init__: the first check that fails.
PostInitError(start_line, end_line, size) ==
  IF ~(start_line > 0) THEN "start_line must be a positive integer"
  ELSE IF ~(end_line >= start_line) THEN "end_line must be >= start_line"
  ELSE "size must be a positive integer"

\* Chunk(...) with line bounds (markdown, Dockerfile).
Chunk(path, f, extension, type, text, start_line, end_line) ==
  [file_path |-> path, file_name |-> Basename(f), relative_dir |-> Dirname(path),
   extension |-> extension, type |-> type, text |-> text,
   start_line |-> start_line, end_line |-> end_line]

\* Chunk(...) with start_line and end_line left None (config files).
ChunkNoLines(path, f, extension, type, text) ==
  [file_path |-> path, file_name |-> Basename(f), relative_dir |-> Dirname(path),
   extension |-> extension, type |-> type, text |-> text]

\* CodeChunk(...): the record, built only when __post_init__ passes.
CodeChunk(path, f, extension, text, start_line, end_line, size, language) ==
  [file_path |-> path, file_name |-> Basename(f), relative_dir |-> Dirname(path),
   extension |-> extension, type |-> "code", text |-> text,
   start_line |-> start_line, end_line |-> end_line, size |-> size,
   language |-> language]

\* chunks.append(CodeChunk(...)): appends, or raises ValueError.
AppendCodeChunk(chunks, path, f, extension, text, start_line, end_line, language) ==
  IF PostInitOK(start_line, end_line, Len(text))
  THEN Ok(Append(chunks, CodeChunk(path, f, extension, text, start_line,
                                   end_line, Len(text), language)))
  ELSE Raised(chunks, PostInitError(start_line, end_line, Len(text)))

\* ------------------------------------------------------ boundary heuristics
\* The loop shared by chunk_markdown and chunk_dockerfile: blank pieces are
\* skipped; the start line counts the newlines before the first occurrence
\* of the piece in the content.  loop and chunk_of bind the pieces and the
\* piece at hand once.
SectionChunks(pieces, content, path, f, extension, type) ==
  LET loop[sections \in {pieces}] ==
        LET kept == SelectSeq(sections, LAMBDA section : Strip(section) # <<>>)
            chunk_of[section \in {kept[k] : k \in 1..Len(kept)}] ==
              LET start_line ==
                    Count(Slice(content, 0, Find(content, section)), NL) + 1
                  end_line == start_line + Count(section, NL)
              IN  Chunk(path, f, extension, type, Strip(section), start_line,
                        end_line)
        IN  [k \in 1..Len(kept) |-> chunk_of[kept[k]]]
  IN  loop[pieces]

\* re.split(r'^#{2,3}\s+', content, flags=re.MULTILINE)
MarkdownSections(content) ==
  ReSplit(content, [p \in 1..Len(content) |-> MdMatchEnd(content, p)])

\* re.split(r'\n(?=RUN |ARG |ENV |COPY |ENTRYPOINT |CMD |FROM |WORKDIR )', content)
DockerCommands(content) ==
  ReSplit(content, [p \in 1..Len(content) |-> DockerMatchEnd(content, p)])

chunk_markdown(content, path, f) ==
  SectionChunks(MarkdownSections(content), content, path, f, ".md", "markdown")

chunk_dockerfile(content, path, f) ==
  SectionChunks(DockerCommands(content), content, path, f, "", "dockerfile")

chunk_config_file(content, path, f) ==
  <<ChunkNoLines(path, f, Extension(f), "config", Strip(content))>>

\* ------------------------------------------------------- structural chunker
\* A syntax tree: node 1 is the root, parent[i] < i is the parent of node i
\* (0 for the root), a node's children are its child nodes in ascending order,
\* and each node has a kind and a byte span of the source.
NodeCount(tree) == Len(tree.type)

\* node.children
Children(tree, i) ==
  SelectSeq([k \in 1..NodeCount(tree) |-> k], LAMBDA j : tree.parent[j] = i)

\* node.start_point[0] and node.end_point[0]: the row of a byte offset.
Row(content, byte) == Count(Slice(content, 0, byte), NL)

VARIABLES
  TREE_SITTER_PARSERS,  \* the grammars loaded at import
  entry,                \* what runs: "repo", "file", or a direct call "call"
  pc,                   \* where the run is
  repo_kind,            \* what repo_path or file_path names: "dir", "file", "missing"
  listing,              \* the files os.walk yields, in its order
  idx,                  \* the file the walk is at
  code_chunks,          \* result stream of chunk_repository
  non_code_chunks,      \* result stream of chunk_repository
  errors,               \* error list of chunk_repository
  processed_files,      \* paths that yielded a chunk
  out_docs,             \* the writes to output documents, in order
  call,                 \* a direct call of a chunker: function and arguments
  ret                   \* what the direct call or chunk_file's process_file returned

vars == <<TREE_SITTER_PARSERS, entry, pc, repo_kind, listing, idx, code_chunks,
          non_code_chunks, errors, processed_files, out_docs, call, ret>>

\* The chunk process_node appends for a node of the allow-list.
NodeChunk(chunks, node, tree, content, language, path, f) ==
  AppendCodeChunk(chunks, path, f, Extension(f),
    Slice(content, tree.start_byte[node], tree.end_byte[node]),
    Row(content, tree.start_byte[node]) + 1,
    Row(content, tree.end_byte[node]) + 1, language)

RECURSIVE process_node(_, _, _, _, _, _, _)
RECURSIVE process_children(_, _, _, _, _, _, _)

\* for child in node.children: process_node(child); a ValueError ends the loop.
process_children(chunks, kids, tree, content, language, path, f) ==
  IF kids = <<>> THEN Ok(chunks)
  ELSE CHOOSE result \in
         {IF first.raised THEN first
          ELSE process_children(first.chunks, Tail(kids), tree, content,
                                language, path, f) :
            first \in {process_node(chunks, Head(kids), tree, content,
                                    language, path, f)}} : TRUE

\* process_node(node) of the mutant: the children of an emitted node are skipped.
process_node_noNested(chunks, node, tree, content, language, path, f) ==
  IF tree.type[node] \in NodeTypes(language)
  THEN NodeChunk(chunks, node, tree, content, language, path, f)
  ELSE process_children(chunks, Children(tree, node), tree, content, language,
                        path, f)

\* process_node(node): emits the node when its kind is in the allow-list, then
\* visits the children in order.
process_node(chunks, node, tree, content, language, path, f) ==
  CHOOSE result \in
    {IF own.raised THEN own
     ELSE process_children(own.chunks, Children(tree, node), tree, content,
                           language, path, f) :
       own \in {IF tree.type[node] \in NodeTypes(language)
                THEN NodeChunk(chunks, node, tree, content, language, path, f)
                ELSE Ok(chunks)}} : TRUE

\* chunk_with_tree_sitter of the mutant: no whole-file chunk when nothing matched.
chunk_with_tree_sitter_noFallback(content, language, path, f) ==
  IF language \notin TREE_SITTER_PARSERS THEN Ok(<<>>)
  ELSE IF NodeTypes(language) = {} THEN Ok(<<>>)
  ELSE process_node(<<>>, 1, f.tree, content, language, path, f)

\* chunk_with_tree_sitter without the check that the grammar is loaded: the
\* look-up of the parser raises KeyError.
chunk_with_tree_sitter_noLoadCheck(content, language, path, f) ==
  IF language \notin TREE_SITTER_PARSERS THEN Raised(<<>>, "KeyError")
  ELSE IF NodeTypes(language) = {} THEN Ok(<<>>)
  ELSE CHOOSE result \in
         {IF walked.raised THEN walked
          ELSE IF walked.chunks = <<>>
            THEN AppendCodeChunk(<<>>, path, f, Extension(f), content, 1,
                                 SplitLinesLen(content), language)
          ELSE walked :
            walked \in {process_node(<<>>, 1, f.tree, content, language,
                                     path, f)}} : TRUE

\* chunk_with_tree_sitter(content, language, file_path, base_dir); path is the
\* path the chunks carry and f.tree what parser.parse returns.
chunk_with_tree_sitter(content, language, path, f) ==
  IF language \notin TREE_SITTER_PARSERS THEN Ok(<<>>)
  ELSE IF NodeTypes(language) = {} THEN Ok(<<>>)
  ELSE CHOOSE result \in
         {IF walked.raised THEN walked
          ELSE IF walked.chunks = <<>>
            THEN AppendCodeChunk(<<>>, path, f, Extension(f), content, 1,
                                 SplitLinesLen(content), language)
          ELSE walked :
            walked \in {process_node(<<>>, 1, f.tree, content, language,
                                     path, f)}} : TRUE

\* -------------------------------------------------- token-bounded chunker
\* The loop over splitter.split(content): one CodeChunk per triple, in order;
\* a ValueError ends the loop.
RECURSIVE SplitterChunks(_, _, _, _, _, _)
SplitterChunks(chunks, triples, path, f, extension, language) ==
  IF triples = <<>> THEN Ok(chunks)
  ELSE CHOOSE result \in
         {IF one.raised THEN one
          ELSE SplitterChunks(one.chunks, Tail(triples), path, f, extension,
                              language) :
            one \in {AppendCodeChunk(chunks, path, f, extension,
                                     Head(triples).text,
                                     Head(triples).start_line,
                                     Head(triples).end_line, language)}} : TRUE

\* chunk_code_file(file_path, base_dir)
chunk_code_file(path, f) ==
  LET extension == Extension(f)
      content == f.content
  IN  IF ~f.readable THEN Ok(<<>>)
      ELSE IF extension \in DOMAIN CODE_SPLITTER_EXTENSIONS
        THEN IF f.split.raises THEN Raised(<<>>, "split failed")
             ELSE SplitterChunks(<<>>, f.split.triples, path, f, extension,
                                 CODE_SPLITTER_EXTENSIONS[extension])
      ELSE IF extension \in DOMAIN TREE_SITTER_EXTENSIONS
        THEN chunk_with_tree_sitter(content, TREE_SITTER_EXTENSIONS[extension],
                                    path, f)
      ELSE IF extension \in {".baml", ".cjs"} \/ f.ext = ".baml"
        THEN AppendCodeChunk(<<>>, path, f, extension, content, 1,
                             SplitLinesLen(content), "typescript")
      ELSE Ok(<<>>)

\* ------------------------------------------------------------- dispatcher
\* What process_file of chunk_repo_unified.py returns: both lists, or that it
\* raised.
Lists(code, non_code) ==
  [raised |-> FALSE, code |-> code, non_code |-> non_code, error |-> ""]
ListsRaised(error) ==
  [raised |-> TRUE, code |-> <<>>, non_code |-> <<>>, error |-> error]

\* The except clause around the read, of the mutant: the error propagates.
on_read_error_raise(f) == ListsRaised("can't decode")

\* The except clause around the read in process_file: the failure is reported
\* as a progress event and the file yields nothing.
on_read_error(f) == Lists(<<>>, <<>>)

\* process_file(file_path, base_dir) of chunk_repo_unified.py
process_file(f, base_dir) ==
  LET path == get_relative_path(JoinPath(base_dir, f), base_dir)
      extension == Extension(f)
  IN  IF ~f.readable THEN on_read_error(f)
      ELSE IF \/ extension \in DOMAIN CODE_SPLITTER_EXTENSIONS
              \/ extension \in DOMAIN TREE_SITTER_EXTENSIONS
        THEN CHOOSE lists \in
               {IF r.raised THEN ListsRaised(r.error) ELSE Lists(r.chunks, <<>>) :
                  r \in {chunk_code_file(path, f)}} : TRUE
      ELSE IF extension \in DOMAIN NON_CODE_EXTENSIONS
        THEN IF extension = ".md"
               THEN Lists(<<>>, chunk_markdown(f.content, path, f))
             ELSE IF extension \in {".yaml", ".yml", ".toml", ".env"}
               THEN Lists(<<>>, chunk_config_file(f.content, path, f))
             ELSE Lists(<<>>, <<>>)
      ELSE IF Basename(f) = "Dockerfile"
        THEN Lists(<<>>, chunk_dockerfile(f.content, path, f))
      ELSE Lists(<<>>, <<>>)

\* process_file(file_path) of chunk_file.py: one list, and the chunks carry
\* the path as given.
process_file_single(f, base_dir) ==
  LET path == JoinPath(base_dir, f)
      extension == Extension(f)
  IN  IF ~f.readable THEN Ok(<<>>)
      ELSE IF \/ extension \in DOMAIN CODE_SPLITTER_EXTENSIONS
              \/ extension \in DOMAIN TREE_SITTER_EXTENSIONS
        THEN chunk_code_file(path, f)
      ELSE IF extension \in DOMAIN NON_CODE_EXTENSIONS
        THEN IF extension = ".md"
               THEN Ok(chunk_markdown(f.content, path, f))
             ELSE IF extension \in {".yaml", ".yml", ".toml", ".env"}
               THEN Ok(chunk_config_file(f.content, path, f))
             ELSE Ok(<<>>)
      ELSE IF Basename(f) = "Dockerfile"
        THEN Ok(chunk_dockerfile(f.content, path, f))
      ELSE Ok(<<>>)

\* ------------------------------------------------------------------ inputs
\* The tree of a file no parser is asked about, and of an empty source.
RootOnly(content) ==
  [parent |-> <<0>>, type |-> <<"program">>, start_byte |-> <<0>>,
   end_byte |-> <<Len(content)>>]

\* The splitter's answer for a file it is not asked about.
NoSplit == [raises |-> FALSE, triples |-> <<>>]

File(dirs, stem, ext, readable, content, tree, split) ==
  [dirs |-> dirs, stem |-> stem, ext |-> ext, readable |-> readable,
   content |-> content, tree |-> tree, split |-> split]

\* A text file: no tree, no split.
TextFile(dirs, stem, ext, content) ==
  File(dirs, stem, ext, TRUE, content, RootOnly(content), NoSplit)

\* The kinds of the nodes below the root: in the allow-list of the TypeScript
\* grammars only, of every grammar, of none.
TreeKinds == {"function_declaration", "class_declaration", "identifier"}

\* The non-empty byte spans of a source, as <<start_byte, end_byte>>.
Spans(content) ==
  {sp \in (0..Len(content)) \X (0..Len(content)) : sp[1] < sp[2]}

\* The trees the parser may return for a source: a root of kind program over
\* the whole source and k further nodes, none for a blank source.
Trees(content, k) ==
  IF Strip(content) = <<>>
  THEN IF k = 0 THEN {RootOnly(content)} ELSE {}
  ELSE {[parent |-> <<0>> \o par, type |-> <<"program">> \o ty,
         start_byte |-> <<0>> \o [i \in 1..k |-> sp[i][1]],
         end_byte |-> <<Len(content)>> \o [i \in 1..k |-> sp[i][2]]] :
          par \in {q \in [1..k -> 1..k] : \A i \in 1..k : q[i] <= i},
          ty \in [1..k -> TreeKinds],
          sp \in [1..k -> Spans(content)]}

\* The sources handed to the structural chunker.
TreeSources == {<<>>, <<NL>>, <<SP, NL>>, <<"a", NL>>}

\* What the splitter may return for a file: it raises, or up to MaxTriples
\* triples with any text and any line bounds.
TripleSet ==
  {[text |-> t, start_line |-> ln[1], end_line |-> ln[2]] :
     t \in {<<>>, <<SP>>, <<"a">>},
     ln \in {<<0, 0>>, <<1, 1>>, <<1, 2>>, <<2, 1>>}}

Splits ==
  {[raises |-> TRUE, triples |-> <<>>]}
    \cup {[raises |-> FALSE, triples |-> ts] :
            ts \in UNION {[1..k -> TripleSet] : k \in 0..MaxTriples}}

\* The markdown texts: every text over the alphabet and the example of the
\* specification.
MdAlphabet == {"#", SP, NL, "a"}
MdExample ==
  <<"#", SP, "T", "i", "t", "l", "e", NL, NL,
    "#", "#", SP, "A", NL, "b", "o", "d", "y", SP, "a", NL, NL,
    "#", "#", SP, "B", NL, "b", "o", "d", "y", SP, "b", NL>>
MdTexts == Texts(MdAlphabet, MaxLen) \cup {MdExample}

\* The build-script texts: up to MaxPieces pieces in a row, and the example
\* of the specification.
RECURSIVE Concat(_)
Concat(pieces) ==
  IF pieces = <<>> THEN <<>> ELSE Head(pieces) \o Concat(Tail(pieces))
DockerPieces ==
  {FROM_ \o <<"x">>, RUN_ \o <<"y">>, <<"R", "U", "N">>, <<NL>>, <<SP>>, <<"x">>}
DockerExample ==
  FROM_ \o <<"x", NL>> \o RUN_ \o <<"y", NL>> \o COPY_ \o <<"z", SP, "w", NL>>
DockerTexts ==
  {Concat(ps) : ps \in UNION {[1..k -> DockerPieces] : k \in 0..MaxPieces}}
    \cup {DockerExample}

\* The config texts.
ConfigTexts == Texts({SP, NL, "k"}, MaxPieces)

\* The walked tree is rooted at repo_path.
repo_path == <<"repo">>

\* A class with a method inside.
ClassTree ==
  [parent |-> <<0, 1, 2>>,
   type |-> <<"program", "class_declaration", "function_declaration">>,
   start_byte |-> <<0, 0, 0>>, end_byte |-> <<2, 2, 1>>]

\* A class with a method inside, followed by a function: the method comes
\* before the function in the source and after it in the numbering.
NestedSource == <<"a", NL, "a">>
NestedTree ==
  [parent |-> <<0, 1, 1, 2>>,
   type |-> <<"program", "class_declaration", "function_declaration",
              "function_declaration">>,
   start_byte |-> <<0, 0, 2, 0>>, end_byte |-> <<3, 2, 3, 1>>]

\* The splitter's answers.
Triple(text, start_line, end_line) ==
  [text |-> text, start_line |-> start_line, end_line |-> end_line]
GoodSplit ==
  [raises |-> FALSE,
   triples |-> <<Triple(<<"a">>, 1, 1), Triple(<<"a">>, 2, 2)>>]
BadSplit ==
  [raises |-> FALSE,
   triples |-> <<Triple(<<"a">>, 1, 1), Triple(<<>>, 2, 2)>>]
RaisingSplit == [raises |-> TRUE, triples |-> <<>>]

\* The files a walked tree is made of.
RepoFiles ==
  {File(<<"src">>, "a", ".py", TRUE, <<"a", NL, "a">>, RootOnly(<<>>), GoodSplit),
   File(<<"src">>, "a", ".py", TRUE, <<"a", NL>>, RootOnly(<<>>), BadSplit),
   File(<<"src">>, "a", ".py", TRUE, <<"a">>, RootOnly(<<>>), RaisingSplit),
   File(<<"src">>, "b", ".PY", FALSE, <<>>, RootOnly(<<>>), NoSplit),
   File(<<"src">>, "c", ".ts", TRUE, <<"a", NL>>, ClassTree, NoSplit),
   File(<<"src">>, "c", ".ts", TRUE, <<>>, RootOnly(<<>>), NoSplit),
   File(<<"src">>, "d", ".java", TRUE, <<SP, NL>>, RootOnly(<<SP, NL>>), NoSplit),
   File(<<>>, "README", ".md", TRUE, MdExample, RootOnly(<<>>), GoodSplit),
   File(<<>>, "Dockerfile", "", TRUE, DockerExample, RootOnly(<<>>), NoSplit),
   File(<<"cfg">>, "e", ".yaml", TRUE, <<"k", NL>>, RootOnly(<<>>), NoSplit),
   File(<<"cfg">>, "e", ".yaml", TRUE, <<>>, RootOnly(<<>>), NoSplit),
   File(<<"cfg">>, "", ".env", TRUE, <<"k">>, RootOnly(<<>>), NoSplit),
   File(<<>>, "f", ".xyz", TRUE, <<"a">>, RootOnly(<<>>), NoSplit),
   File(<<>>, "g", ".XYZ", FALSE, <<>>, RootOnly(<<>>), NoSplit)}

\* What os.walk may yield: up to MaxFiles files, no path twice.
Listings ==
  {l \in UNION {[1..k -> RepoFiles] : k \in 0..MaxFiles} :
     \A i, j \in 1..Len(l) :
       JoinPath(repo_path, l[i]) = JoinPath(repo_path, l[j]) => i = j}

\* The output paths a caller may give: with or without a directory, with or
\* without the .json suffix.
OutPath(dir, stem, suffix) == [dir |-> dir, stem |-> stem, suffix |-> suffix]
OutputFiles ==
  {OutPath(d, "chunks", x) : d \in {"out", ""}, x \in {".json", ".txt"}}
ErrorFiles == {OutPath(d, "errors", ".json") : d \in {"out", ""}}

\* output_file.replace('.json', with)
ReplaceJson(out, with) ==
  IF out.suffix = ".json" THEN OutPath(out.dir, out.stem, with) ELSE out

\* A direct call of a chunker: the function, the language argument of
\* chunk_with_tree_sitter, and the file the other arguments come from.
Call(fn, language, f) == [fn |-> fn, language |-> language, f |-> f]

\* The direct calls of the chunkers.
Calls(c) ==
  \/ \E content \in MdTexts :
       c = Call("chunk_markdown", "", TextFile(<<>>, "README", ".md", content))
  \/ \E content \in DockerTexts :
       c = Call("chunk_dockerfile", "",
                TextFile(<<>>, "Dockerfile", "", content))
  \/ \E content \in ConfigTexts :
       c = Call("chunk_config_file", "",
                TextFile(<<"cfg">>, "e", ".yaml", content))
  \/ \E content \in TreeSources, k \in 0..MaxNodes, lang \in GrammarNames :
       \E tree \in Trees(content, k) :
         c = Call("chunk_with_tree_sitter", lang,
                  File(<<"src">>, "c", ".ts", TRUE, content, tree, NoSplit))
  \/ \E lang \in GrammarNames :
       c = Call("chunk_with_tree_sitter", lang,
                File(<<"src">>, "c", ".ts", TRUE, NestedSource, NestedTree,
                     NoSplit))
  \/ \E split \in Splits :
       c = Call("chunk_code_file", "",
                File(<<"src">>, "a", ".py", TRUE, <<"a">>, RootOnly(<<>>),
                     split))

NoCall == Call("", "", TextFile(<<>>, "", "", <<>>))

\* ------------------------------------------------------------ state machine
\* The state after import: the grammars that loaded, and what was started.
Init ==
  /\ TREE_SITTER_PARSERS \in {LoadParsers(a) : a \in GetParserAnswers}
  /\ pc = "start"
  /\ idx = 1
  /\ code_chunks = <<>>
  /\ non_code_chunks = <<>>
  /\ errors = <<>>
  /\ processed_files = {}
  /\ out_docs = <<>>
  /\ ret = Ok(<<>>)
  /\ \/ /\ entry = "repo"
        /\ call = NoCall
        /\ \/ repo_kind = "dir" /\ listing \in Listings
           \/ repo_kind \in {"file", "missing"} /\ listing = <<>>
     \/ /\ entry = "file"
        /\ call = NoCall
        /\ \/ repo_kind = "file" /\ listing \in {<<f>> : f \in RepoFiles}
           \/ repo_kind \in {"dir", "missing"} /\ listing = <<>>
     \/ /\ entry = "call"
        /\ Calls(call)
        /\ repo_kind = "dir"
        /\ listing = <<>>

\* The except clause of the walk, of the mutant: the error is not recorded.
record_error_dropped(errs, f, error) == errs

\* The except clause of the walk, keeping the latest error only.
record_error_latest(errs, f, error) ==
  <<[file_path |-> get_relative_path(JoinPath(repo_path, f), repo_path),
     error |-> error]>>

\* The except clause of the walk: an entry keyed by the root-relative path.
record_error(errs, f, error) ==
  Append(errs, [file_path |-> get_relative_path(JoinPath(repo_path, f), repo_path),
                error |-> error])

\* os.makedirs(os.path.dirname(path), exist_ok=True) raises for a path with
\* no directory part.
MakedirsRaises(path) == path.dir = ""

\* with open(path, 'w') as f: json.dump(doc, f)
Write(path, doc) == [path |-> path, doc |-> doc]

\* The document a path holds after the writes, <<>> when never written; the
\* last write wins.  Found is whether it was written at all.
Found(writes, path) == \E i \in 1..Len(writes) : writes[i].path = path
FileAt(writes, path) ==
  LET at == {i \in 1..Len(writes) : writes[i].path = path}
  IN  IF at = {} THEN <<>>
      ELSE writes[CHOOSE i \in at : \A j \in at : j <= i].doc

\* chunk_repository up to the walk: a missing path or a path that is no
\* directory ends the run before anything is written.
Start ==
  /\ entry = "repo"
  /\ pc = "start"
  /\ pc' = IF repo_kind # "dir" THEN "done"
           ELSE IF listing = <<>> THEN "write" ELSE "walk"
  /\ UNCHANGED <<TREE_SITTER_PARSERS, entry, repo_kind, listing, idx,
                 code_chunks, non_code_chunks, errors, processed_files,
                 out_docs, call, ret>>

\* One pass of the loop whose except clause, besides recording the error,
\* keeps the code chunks the file had built when it raised.
WalkFile_keepsBuilt ==
  /\ entry = "repo"
  /\ pc = "walk"
  /\ idx <= Len(listing)
  /\ \E r \in {process_file(listing[idx], repo_path)} :
       IF r.raised
       THEN /\ errors' = record_error(errors, listing[idx], r.error)
            /\ \E built \in {chunk_code_file(
                                get_relative_path(JoinPath(repo_path, listing[idx]),
                                                  repo_path),
                                listing[idx]).chunks} :
                 code_chunks' = code_chunks \o built
            /\ UNCHANGED <<non_code_chunks, processed_files>>
       ELSE /\ code_chunks' = code_chunks \o r.code
            /\ non_code_chunks' = non_code_chunks \o r.non_code
            /\ processed_files' =
                 IF r.code # <<>> \/ r.non_code # <<>>
                 THEN processed_files \cup
                        {get_relative_path(JoinPath(repo_path, listing[idx]),
                                           repo_path)}
                 ELSE processed_files
            /\ UNCHANGED errors
  /\ idx' = idx + 1
  /\ pc' = IF idx + 1 > Len(listing) THEN "write" ELSE "walk"
  /\ UNCHANGED <<TREE_SITTER_PARSERS, entry, repo_kind, listing, out_docs,
                 call, ret>>

\* One pass of the loop over the files: the try block and its except clause.
WalkFile ==
  /\ entry = "repo"
  /\ pc = "walk"
  /\ idx <= Len(listing)
  /\ \E r \in {process_file(listing[idx], repo_path)} :
       IF r.raised
       THEN /\ errors' = record_error(errors, listing[idx], r.error)
            /\ UNCHANGED <<code_chunks, non_code_chunks, processed_files>>
       ELSE /\ code_chunks' = code_chunks \o r.code
            /\ non_code_chunks' = non_code_chunks \o r.non_code
            /\ processed_files' =
                 IF r.code # <<>> \/ r.non_code # <<>>
                 THEN processed_files \cup
                        {get_relative_path(JoinPath(repo_path, listing[idx]),
                                           repo_path)}
                 ELSE processed_files
            /\ UNCHANGED errors
  /\ idx' = idx + 1
  /\ pc' = IF idx + 1 > Len(listing) THEN "write" ELSE "walk"
  /\ UNCHANGED <<TREE_SITTER_PARSERS, entry, repo_kind, listing, out_docs,
                 call, ret>>

\* The output step of chunk_repository, for the paths the caller gave.
WriteOutput ==
  /\ entry = "repo"
  /\ pc = "write"
  /\ \E output_file \in OutputFiles, error_file \in ErrorFiles :
       IF MakedirsRaises(output_file) \/ MakedirsRaises(error_file)
       THEN /\ pc' = "crashed"
            /\ UNCHANGED out_docs
       ELSE /\ pc' = "done"
            /\ out_docs' = out_docs \o
                 <<Write(output_file, code_chunks \o non_code_chunks),
                   Write(ReplaceJson(output_file, ".code.json"), code_chunks),
                   Write(ReplaceJson(output_file, ".noncode.json"), non_code_chunks),
                   Write(error_file, errors)>>
  /\ UNCHANGED <<TREE_SITTER_PARSERS, entry, repo_kind, listing, idx,
                 code_chunks, non_code_chunks, errors, processed_files, call, ret>>

\* chunk_file of chunk_file.py: nothing catches what process_file raises.
ChunkFile ==
  /\ entry = "file"
  /\ pc = "start"
  /\ IF repo_kind # "file"
     THEN /\ pc' = "done"
          /\ UNCHANGED <<ret, out_docs>>
     ELSE \E r \in {process_file_single(listing[1], repo_path)} :
              /\ ret' = r
              /\ \E output_file \in OutputFiles :
                   IF r.raised \/ MakedirsRaises(output_file)
                   THEN /\ pc' = "crashed"
                        /\ UNCHANGED out_docs
                   ELSE /\ pc' = "done"
                        /\ out_docs' = out_docs \o <<Write(output_file, r.chunks)>>
  /\ UNCHANGED <<TREE_SITTER_PARSERS, entry, repo_kind, listing, idx,
                 code_chunks, non_code_chunks, errors, processed_files, call>>

\* The path a directly called chunker gives its chunks.
CallPath == get_relative_path(JoinPath(repo_path, call.f), repo_path)

Returns(r) ==
  /\ ret' = r
  /\ pc' = "done"
  /\ UNCHANGED <<TREE_SITTER_PARSERS, entry, repo_kind, listing, idx,
                 code_chunks, non_code_chunks, errors, processed_files,
                 out_docs, call>>

CallMarkdown ==
  /\ entry = "call" /\ pc = "start" /\ call.fn = "chunk_markdown"
  /\ Returns(Ok(chunk_markdown(call.f.content, CallPath, call.f)))

CallDockerfile ==
  /\ entry = "call" /\ pc = "start" /\ call.fn = "chunk_dockerfile"
  /\ Returns(Ok(chunk_dockerfile(call.f.content, CallPath, call.f)))

CallConfigFile ==
  /\ entry = "call" /\ pc = "start" /\ call.fn = "chunk_config_file"
  /\ Returns(Ok(chunk_config_file(call.f.content, CallPath, call.f)))

CallTreeSitter ==
  /\ entry = "call" /\ pc = "start" /\ call.fn = "chunk_with_tree_sitter"
  /\ Returns(chunk_with_tree_sitter(call.f.content, call.language, CallPath, call.f))

CallCodeFile ==
  /\ entry = "call" /\ pc = "start" /\ call.fn = "chunk_code_file"
  /\ Returns(chunk_code_file(CallPath, call.f))

\* The level-2 and level-3 heading markers.
HeadingMarkers == {<<"#", "#">>, <<"#", "#", "#">>}

\* The text of a section under a heading marker and one space.
WithHeading(marker, text) == marker \o <<SP>> \o text

\* chunk_markdown called again, on one chunk of its own result put back
\* under a heading marker.
ResplitSection ==
  /\ entry = "call" /\ pc = "done" /\ call.fn = "chunk_markdown"
  /\ \E k \in 1..Len(ret.chunks), marker \in HeadingMarkers :
       \E content \in {WithHeading(marker, ret.chunks[k].text)} :
         /\ call' = Call("chunk_markdown", "", TextFile(<<>>, "README", ".md", content))
         /\ ret' = Ok(chunk_markdown(content, CallPath, call.f))
  /\ pc' = "resplit"
  /\ UNCHANGED <<TREE_SITTER_PARSERS, entry, repo_kind, listing, idx,
                 code_chunks, non_code_chunks, errors, processed_files,
                 out_docs>>

Next ==
  \/ Start
  \/ WalkFile
  \/ WriteOutput
  \/ ChunkFile
  \/ CallMarkdown
  \/ CallDockerfile
  \/ CallConfigFile
  \/ CallTreeSitter
  \/ CallCodeFile
  \/ ResplitSection

Spec == Init /\ [][Next]_vars

\* The repository run alone: chunk_repo_unified.py started on a path.
InitRepo == entry = "repo" /\ Init
NextRepo == Start \/ WalkFile \/ WriteOutput
RepoSpec == InitRepo /\ [][NextRepo]_vars

\* The script is a sequential program: a step that can be taken is taken.
FairRepoSpec == RepoSpec /\ WF_vars(NextRepo)

\* ---------------------------------------------------------------- properties
\* The root-relative path of a file, from its name.
RelPath(f) == f.dirs \o <<f.stem \o f.ext>>

\* The elements of a sequence.
Range(seq) == {seq[i] : i \in 1..Len(seq)}

\* The chunks a stream holds of one file, in the stream's order.
ChunksOf(stream, f) == SelectSeq(stream, LAMBDA c : c.file_path = RelPath(f))

\* Every chunk that was emitted: the chunks in the streams of a repository
\* run and the chunks a call returned.
Emitted ==
  Range(code_chunks) \cup Range(non_code_chunks)
    \cup (IF pc = "done" /\ ~ret.raised THEN Range(ret.chunks) ELSE {})

\* The files of the listing whose processing raises / yields chunks.
Raising(i) == process_file(listing[i], repo_path).raised
Yielding(i) ==
  LET r == process_file(listing[i], repo_path)
  IN  ~r.raised /\ (r.code # <<>> \/ r.non_code # <<>>)

\* The walk is over and the output step is next.
AtOutputStep == pc = "write" /\ idx = Len(listing) + 1

\* The error list holds exactly one entry per raising file, keyed by its
\* root-relative path, in walk order, and every file that does not raise has
\* all its chunks in the streams.
AllFilesHandled ==
  /\ \A i \in 1..Len(listing) :
       Raising(i) <=> \E k \in 1..Len(errors) : errors[k].file_path = RelPath(listing[i])
  /\ Len(errors) = Cardinality({i \in 1..Len(listing) : Raising(i)})
  /\ \A i, j \in 1..Len(listing) : \A k, l \in 1..Len(errors) :
       /\ errors[k].file_path = RelPath(listing[i])
       /\ errors[l].file_path = RelPath(listing[j])
       /\ i < j
       => k < l
  /\ \A i \in 1..Len(listing) :
       ~Raising(i) =>
          /\ ChunksOf(code_chunks, listing[i]) = process_file(listing[i], repo_path).code
          /\ ChunksOf(non_code_chunks, listing[i])
               = process_file(listing[i], repo_path).non_code

\* C1: in a repository run over a directory, whatever files raise while they
\* are processed, the walk reaches the output step with one error entry per
\* raising file, keyed by its root-relative path, and with the chunks of
\* every other file in the streams.
C1_FailingFileNeverEndsWalk ==
  (entry = "repo" /\ repo_kind = "dir" /\ pc \in {"start", "walk"})
    ~> (AtOutputStep /\ AllFilesHandled)

\* C1 witness: the walk is over, a file raised and a file after it was processed
\* into a stream.
C1_Witness ==
  /\ AtOutputStep
  /\ \E i, j \in 1..Len(listing) : i < j /\ Raising(i) /\ Yielding(j)
  /\ errors # <<>>
  /\ code_chunks \o non_code_chunks # <<>>

\* The file cannot be read as UTF-8 text / is a valid file of a supported type.
Unreadable(i) == ~listing[i].readable
ValidSupported(i) == listing[i].readable /\ Yielding(i)

\* C2: after a repository run over one unreadable file and otherwise valid
\* supported files, the streams hold the chunks of every valid file and the
\* error list holds exactly one entry, the unreadable file's.
C2_OneErrorForUnreadableFile ==
  (/\ entry = "repo"
   /\ pc \in {"write", "done"}
   /\ Cardinality({i \in 1..Len(listing) : Unreadable(i)}) = 1
   /\ \A i \in 1..Len(listing) : Unreadable(i) \/ ValidSupported(i))
  => /\ \A i \in 1..Len(listing) :
          ValidSupported(i) =>
            ChunksOf(code_chunks \o non_code_chunks, listing[i]) # <<>>
     /\ Len(errors) = 1
     /\ \A i \in 1..Len(listing) :
          Unreadable(i) => errors[1].file_path = RelPath(listing[i])

\* C3: every emitted chunk that carries line bounds has start_line >= 1 and
\* end_line >= start_line.
C3_LineBounds ==
  \A c \in Emitted :
    "start_line" \in DOMAIN c => c.start_line >= 1 /\ c.end_line >= c.start_line

\* C3 witness: a call of the token-bounded chunker returned several chunks,
\* one of them over more than one line.
C3_Witness ==
  /\ pc = "done"
  /\ call.fn = "chunk_code_file"
  /\ ~ret.raised
  /\ Len(ret.chunks) >= 2
  /\ \E c \in Range(ret.chunks) : c.end_line > c.start_line

\* C4: no emitted chunk has an empty or white-space-only text.
C4_NoBlankChunk == \A c \in Emitted : Strip(c.text) # <<>>

\* The nodes of a tree whose kind is in the allow-list of the language.
Matched(tree, language) ==
  {i \in 1..NodeCount(tree) : tree.type[i] \in NodeTypes(language)}

\* The number of lines of a text: the positions that start a line.
LineCount(s) == Cardinality({p \in 1..Len(s) : p = 1 \/ s[p - 1] = NL})

\* A direct call of the structural chunker on a non-empty source has returned.
TreeSitterReturned ==
  /\ entry = "call"
  /\ call.fn = "chunk_with_tree_sitter"
  /\ pc = "done"
  /\ call.f.content # <<>>

\* What C5 says of the result: a list that is not empty, and when no node
\* matched exactly one chunk over the whole file.
FallbackResult ==
  /\ ~ret.raised
  /\ ret.chunks # <<>>
  /\ Matched(call.f.tree, call.language) = {} =>
       /\ Len(ret.chunks) = 1
       /\ ret.chunks[1].text = call.f.content
       /\ ret.chunks[1].start_line = 1
       /\ ret.chunks[1].end_line = LineCount(call.f.content)

\* C5 as stated: chunk_with_tree_sitter never returns an empty list for a
\* non-empty source of a structural-set extension, and returns one whole-file
\* chunk from line 1 to the last line when no node matched.
C5_NeverEmpty == TreeSitterReturned => FallbackResult

\* C5 as amended: when the grammar of the language is loaded,
\* chunk_with_tree_sitter never returns an empty list for a non-empty source,
\* and returns one whole-file chunk from line 1 to the last line when no node
\* matched.
C5_NeverEmptyWhenLoaded ==
  TreeSitterReturned /\ call.language \in TREE_SITTER_PARSERS => FallbackResult

\* C5 witness: the grammar is loaded, the tree has nodes below the root, none
\* of them matched, and the whole source came back as one chunk.
C5_Witness ==
  /\ TreeSitterReturned
  /\ call.language \in TREE_SITTER_PARSERS
  /\ NodeCount(call.f.tree) > 1
  /\ Matched(call.f.tree, call.language) = {}
  /\ Len(ret.chunks) = 1
  /\ ret.chunks[1].end_line = 1

\* The nodes from the root down to node i.
RECURSIVE PathTo(_, _)
PathTo(tree, i) ==
  IF tree.parent[i] = 0 THEN <<i>> ELSE Append(PathTo(tree, tree.parent[i]), i)

\* Depth-first pre-order: a comes before b when a is an ancestor of b, or
\* when, where their paths from the root part, a's side is the earlier child.
Before(tree, a, b) ==
  LET pa == PathTo(tree, a)
      pb == PathTo(tree, b)
  IN  /\ a # b
      /\ \/ Len(pa) < Len(pb) /\ SubSeq(pb, 1, Len(pa)) = pa
         \/ \E k \in 1..Len(pa) :
              /\ k <= Len(pb)
              /\ SubSeq(pa, 1, k - 1) = SubSeq(pb, 1, k - 1)
              /\ pa[k] < pb[k]

\* C6: chunk_with_tree_sitter returns exactly one chunk for every node whose
\* kind is in the allow-list of the language, whatever its depth and whether
\* or not an enclosing node was emitted, in depth-first pre-order, each with
\* the node's text and rows.
C6_OneChunkPerMatchedNode ==
  (/\ TreeSitterReturned
   /\ call.language \in TREE_SITTER_PARSERS
   /\ Matched(call.f.tree, call.language) # {})
  => LET tree == call.f.tree
         nodes == Matched(tree, call.language)
         rank(i) == 1 + Cardinality({j \in nodes : Before(tree, j, i)})
     IN  /\ ~ret.raised
         /\ Len(ret.chunks) = Cardinality(nodes)
         /\ \A i \in nodes :
              /\ ret.chunks[rank(i)].text
                   = SubSeq(call.f.content, tree.start_byte[i] + 1,
                            tree.end_byte[i])
              /\ ret.chunks[rank(i)].start_line
                   = 1 + Count(SubSeq(call.f.content, 1, tree.start_byte[i]), NL)
              /\ ret.chunks[rank(i)].end_line
                   = 1 + Count(SubSeq(call.f.content, 1, tree.end_byte[i]), NL)

\* C6 witness: a class, a method nested in it and a function after it were
\* all emitted, the method before the function, and the root was not.
C6_Witness ==
  /\ TreeSitterReturned
  /\ call.f.tree = NestedTree
  /\ Matched(NestedTree, call.language) = {2, 3, 4}
  /\ Len(ret.chunks) = 3
  /\ ret.chunks[2].start_line = 1
  /\ ret.chunks[3].start_line = 2

\* The triples CodeChunk accepts.
ValidTriples(triples) ==
  SelectSeq(triples, LAMBDA t :
    t.start_line >= 1 /\ t.end_line >= t.start_line /\ Len(t.text) > 0)

\* C7: when a triple of the splitter violates the chunk model, only that
\* triple is dropped: the code stream holds one chunk per valid triple of
\* the file, in order.
C7_OnlyInvalidUnitDropped ==
  (entry = "repo" /\ pc \in {"write", "done"})
  => \A i \in 1..Len(listing) :
       (/\ listing[i].readable
        /\ Extension(listing[i]) \in DOMAIN CODE_SPLITTER_EXTENSIONS
        /\ ~listing[i].split.raises)
       => LET valid == ValidTriples(listing[i].split.triples)
              got == ChunksOf(code_chunks, listing[i])
          IN  /\ Len(got) = Len(valid)
              /\ \A k \in 1..Len(valid) : got[k].text = valid[k].text

\* A file of no strategy bucket that is not named Dockerfile.
Unsupported(f) ==
  /\ Extension(f) \notin DOMAIN CODE_SPLITTER_EXTENSIONS
  /\ Extension(f) \notin DOMAIN TREE_SITTER_EXTENSIONS
  /\ Extension(f) \notin DOMAIN NON_CODE_EXTENSIONS
  /\ Basename(f) # "Dockerfile"

\* C8: a file of no strategy bucket that is not named Dockerfile yields no
\* chunk in either stream and no error entry, readable or not; in single-file
\* mode process_file returns no chunk for it and does not raise.
C8_UnsupportedYieldsNothing ==
  /\ entry = "repo" =>
       \A i \in 1..Len(listing) :
         Unsupported(listing[i]) =>
           /\ ChunksOf(code_chunks, listing[i]) = <<>>
           /\ ChunksOf(non_code_chunks, listing[i]) = <<>>
           /\ \A k \in 1..Len(errors) :
                errors[k].file_path # RelPath(listing[i])
  /\ (/\ entry = "file"
      /\ repo_kind = "file"
      /\ pc # "start"
      /\ Unsupported(listing[1]))
     => ~ret.raised /\ ret.chunks = <<>>

\* C8 witness: the walk went through an unsupported file that can be read
\* and one that cannot.
C8_Witness ==
  /\ entry = "repo"
  /\ AtOutputStep
  /\ \E i, j \in 1..Len(listing) :
       /\ Unsupported(listing[i]) /\ listing[i].readable
       /\ Unsupported(listing[j]) /\ ~listing[j].readable

\* C9: a readable .md file is split by chunk_markdown and its chunks are in
\* the non-code stream, never in the code stream.
C9_MarkdownIsStructuredText ==
  (entry = "repo" /\ pc \in {"write", "done"})
  => \A i \in 1..Len(listing) :
       (listing[i].readable /\ Extension(listing[i]) = ".md")
       => /\ ChunksOf(code_chunks, listing[i]) = <<>>
          /\ ChunksOf(non_code_chunks, listing[i])
               = chunk_markdown(listing[i].content, RelPath(listing[i]),
                                listing[i])

\* The number of heading marks of a level-2 or level-3 heading that starts
\* at position p: the position starts a line, holds two or three marks, and
\* white space follows them; 0 when no such heading starts there.
HeadingMarks(s, p) ==
  IF \E n \in {2, 3} :
       /\ p = 1 \/ s[p - 1] = NL
       /\ p + n <= Len(s)
       /\ \A i \in 0..(n - 1) : s[p + i] = "#"
       /\ s[p + n] \in {SP, NL}
  THEN CHOOSE n \in {2, 3} :
         /\ p + n <= Len(s)
         /\ \A i \in 0..(n - 1) : s[p + i] = "#"
         /\ s[p + n] \in {SP, NL}
  ELSE 0

\* The positions where a level-2 or level-3 heading starts, and the k-th.
Headings(s) == {p \in 1..Len(s) : HeadingMarks(s, p) # 0}
Heading(s, k) ==
  CHOOSE p \in Headings(s) : Cardinality({q \in Headings(s) : q < p}) = k - 1

\* The first position after the marks of the heading at p that holds no
\* white space.
AfterMarker(s, p) ==
  LET from == p + HeadingMarks(s, p)
      text == {q \in from..Len(s) : s[q] \notin {SP, NL}}
  IN  IF text = {} THEN Len(s) + 1
      ELSE CHOOSE q \in text : \A r \in text : q <= r

\* The sections of a markdown text: the preamble, then one per heading, from
\* the heading (marker included or not) to the next heading or the end.
Sections(s, withMarker) ==
  LET n == Cardinality(Headings(s))
  IN  [k \in 1..(n + 1) |->
         SubSeq(s,
                IF k = 1 THEN 1
                ELSE IF withMarker THEN Heading(s, k - 1)
                ELSE AfterMarker(s, Heading(s, k - 1)),
                IF k = n + 1 THEN Len(s) ELSE Heading(s, k) - 1)]

\* The sections that are not blank, trimmed, in source order.
TrimmedSections(s, withMarker) ==
  LET kept == SelectSeq(Sections(s, withMarker),
                        LAMBDA section : \E i \in 1..Len(section) :
                                           section[i] \notin {SP, NL})
  IN  [k \in 1..Len(kept) |-> Strip(kept[k])]

\* A direct call of chunk_markdown has returned.
MarkdownReturned ==
  entry = "call" /\ call.fn = "chunk_markdown" /\ pc = "done"

\* The texts of the returned chunks, in order.
ReturnedTexts == [k \in 1..Len(ret.chunks) |-> ret.chunks[k].text]

\* "# Title", "## A\nbody a", "## B\nbody b"
MdExampleWithMarkers ==
  << <<"#", SP, "T", "i", "t", "l", "e">>,
     <<"#", "#", SP, "A", NL, "b", "o", "d", "y", SP, "a">>,
     <<"#", "#", SP, "B", NL, "b", "o", "d", "y", SP, "b">> >>

\* "# Title", "A\nbody a", "B\nbody b"
MdExampleWithoutMarkers ==
  << <<"#", SP, "T", "i", "t", "l", "e">>,
     <<"A", NL, "b", "o", "d", "y", SP, "a">>,
     <<"B", NL, "b", "o", "d", "y", SP, "b">> >>

\* C10 as stated: chunk_markdown returns one chunk per non-blank section, in
\* source order, whose text is the trimmed section from its heading line,
\* marker included, to the next heading; the example yields "# Title",
\* "## A\nbody a", "## B\nbody b".
C10_SectionsWithMarker ==
  MarkdownReturned =>
    /\ ReturnedTexts = TrimmedSections(call.f.content, TRUE)
    /\ call.f.content = MdExample => ReturnedTexts = MdExampleWithMarkers

\* C10 as amended: chunk_markdown returns one chunk per non-blank section, in
\* source order, whose text is the trimmed section from after the heading
\* marker and the white space that follows it to the next heading; the
\* example yields "# Title", "A\nbody a", "B\nbody b".
C10_SectionsWithoutMarker ==
  MarkdownReturned =>
    /\ ReturnedTexts = TrimmedSections(call.f.content, FALSE)
    /\ call.f.content = MdExample => ReturnedTexts = MdExampleWithoutMarkers

\* C10 witness: the example of the specification was split into its preamble
\* and two sections.
C10_Witness ==
  /\ MarkdownReturned
  /\ call.f.content = MdExample
  /\ Len(ret.chunks) = 3
  /\ Cardinality(Headings(MdExample)) = 2

\* The section text that ResplitSection put under a heading marker: the
\* content after the marker ("##" or "###") and its space.
ResplitText ==
  LET content == call.f.content
      marker == IF content[3] = "#" THEN 4 ELSE 3
  IN  SubSeq(content, marker + 1, Len(content))

\* C11: splitting is idempotent on section boundaries: chunk_markdown run
\* again on the text of a chunk it extracted, prefixed with a level-2 or
\* level-3 heading marker, returns exactly one chunk, whose text is that of
\* the original chunk.
C11_ResplitIsIdentity ==
  (entry = "call" /\ pc = "resplit")
    => /\ Len(ret.chunks) = 1
       /\ ret.chunks[1].text = ResplitText

\* A section of two lines, cut from under its heading and split again.
C11_Witness ==
  /\ entry = "call" /\ pc = "resplit"
  /\ call.f.content = <<"#", "#", SP, "A", NL, "b", "o", "d", "y", SP, "a">>
  /\ ReturnedTexts = << <<"A", NL, "b", "o", "d", "y", SP, "a">> >>

\* The positions that start a line of a text.
LineStarts(s) == {p \in 1..Len(s) : p = 1 \/ s[p - 1] = NL}

\* The k-th line of a text (k from 1), without its newline.
Line(s, k) ==
  LET from == CHOOSE p \in LineStarts(s) :
                Cardinality({q \in LineStarts(s) : q < p}) = k - 1
      stops == {q \in from..Len(s) : s[q] = NL}
      to == IF stops = {} THEN Len(s)
            ELSE (CHOOSE q \in stops : \A r \in stops : q <= r) - 1
  IN  SubSeq(s, from, to)

\* The line begins with an instruction keyword and a space.
IsInstruction(line) ==
  \E kw \in DockerKeywords : Slice(line, 0, Len(kw)) = kw

\* Every line of the text is an instruction line.
InstructionLines(s) ==
  \A k \in 1..LineCount(s) : IsInstruction(Line(s, k))

DockerfileReturned ==
  entry = "call" /\ call.fn = "chunk_dockerfile" /\ pc = "done"

\* C12: for a content whose lines each begin with an instruction keyword and
\* a space, chunk_dockerfile returns as many chunks as the content has lines,
\* and the text of the i-th chunk is the i-th line, trimmed.
C12_OneChunkPerInstruction ==
  (DockerfileReturned /\ InstructionLines(call.f.content))
    => /\ Len(ret.chunks) = LineCount(call.f.content)
       /\ \A i \in 1..Len(ret.chunks) :
            ret.chunks[i].text = Strip(Line(call.f.content, i))

\* "FROM x\nRUN y\nCOPY z w\n" has returned its three chunks.
C12_Witness ==
  /\ DockerfileReturned
  /\ call.f.content = DockerExample
  /\ InstructionLines(call.f.content)
  /\ ReturnedTexts = <<FROM_ \o <<"x">>, RUN_ \o <<"y">>, COPY_ \o <<"z", SP, "w">> >>

\* A repository run over a directory has written its documents and ended.
RepoRunCompleted == entry = "repo" /\ repo_kind = "dir" /\ pc = "done"

\* The paths the output step wrote to, in its order: the combined document,
\* the code-only and the non-code-only document.
CombinedPath == out_docs[1].path
CodeOnlyPath == out_docs[2].path
NonCodeOnlyPath == out_docs[3].path

\* C13: after a completed repository run over a directory, whatever the
\* combined-output path of the caller, the document at that path holds all
\* code chunks followed by all non-code chunks, the code-only document holds
\* the code chunks and the non-code-only document the non-code chunks.
C13_ThreeDocuments ==
  RepoRunCompleted
    => /\ Found(out_docs, CombinedPath)
       /\ FileAt(out_docs, CombinedPath) = code_chunks \o non_code_chunks
       /\ FileAt(out_docs, CodeOnlyPath) = code_chunks
       /\ FileAt(out_docs, NonCodeOnlyPath) = non_code_chunks

\* A file of the structural set whose grammar is not in TREE_SITTER_PARSERS
\* after the start-up loop.
GrammarNotLoaded(f) ==
  /\ Extension(f) \in DOMAIN TREE_SITTER_EXTENSIONS
  /\ TREE_SITTER_EXTENSIONS[Extension(f)] \notin TREE_SITTER_PARSERS

\* C14: a file of a structural-set extension whose grammar failed to load
\* yields no chunk in either stream and no error entry in repository mode;
\* in single-file mode process_file returns no chunk for it and does not
\* raise.
C14_NotLoadedYieldsNothing ==
  /\ entry = "repo" =>
       \A i \in 1..Len(listing) :
         GrammarNotLoaded(listing[i]) =>
           /\ ChunksOf(code_chunks, listing[i]) = <<>>
           /\ ChunksOf(non_code_chunks, listing[i]) = <<>>
           /\ \A k \in 1..Len(errors) :
                errors[k].file_path # RelPath(listing[i])
  /\ (/\ entry = "file"
      /\ repo_kind = "file"
      /\ pc # "start"
      /\ GrammarNotLoaded(listing[1]))
     => ~ret.raised /\ ret.chunks = <<>>

\* The walk went through a readable TypeScript file with a class in it while
\* the typescript grammar was not loaded.
C14_Witness ==
  /\ entry = "repo"
  /\ AtOutputStep
  /\ \E i \in 1..Len(listing) :
       /\ GrammarNotLoaded(listing[i])
       /\ listing[i].readable
       /\ listing[i].tree = ClassTree

\* C15: every emitted chunk carries a chunk_hash; two emitted chunks with the
\* same text carry the same chunk_hash, whatever their files and locations.
C15_HashOfTextOnly ==
  /\ \A c \in Emitted : "chunk_hash" \in DOMAIN c
  /\ \A c, d \in Emitted :
       ("chunk_hash" \in DOMAIN c /\ "chunk_hash" \in DOMAIN d /\ c.text = d.text)
         => c.chunk_hash = d.chunk_hash

\* a is a prefix of b.
IsPrefix(a, b) == Len(a) <= Len(b) /\ SubSeq(b, 1, Len(a)) = a

\* C16: in a repository run the code chunks, the non-code chunks and the
\* errors are empty at the start, and every step leaves the old value of each
\* stream as a prefix of its new value: nothing appended is changed, reordered
\* or removed, also not by the output step.
C16_StreamsOnlyGrow ==
  /\ (entry = "repo" /\ pc = "start")
       => (code_chunks = <<>> /\ non_code_chunks = <<>> /\ errors = <<>>)
  /\ [][entry = "repo" =>
          /\ IsPrefix(code_chunks, code_chunks')
          /\ IsPrefix(non_code_chunks, non_code_chunks')
          /\ IsPrefix(errors, errors')]_vars

\* The walk is over and the error stream grew twice, once per file.
C16_Witness ==
  /\ entry = "repo"
  /\ AtOutputStep
  /\ Len(listing) = 2
  /\ Len(errors) = 2

\* The error entries of a file, as positions in the error list.
ErrorsOf(f) == {k \in 1..Len(errors) : errors[k].file_path = RelPath(f)}

\* The file has a chunk in the code stream or in the non-code stream.
HasChunks(f) ==
  ChunksOf(code_chunks, f) # <<>> \/ ChunksOf(non_code_chunks, f) # <<>>

\* C17: in a repository run no file has both a chunk in a stream and an
\* error entry: a file whose processing raised has no chunk in either stream,
\* a file with a chunk in a stream has no error entry, and no file has more
\* than one error entry.
C17_ChunksOrErrorNeverBoth ==
  entry = "repo" =>
    \A i \in 1..Len(listing) :
      /\ (i < idx /\ Raising(i)) => ~HasChunks(listing[i])
      /\ HasChunks(listing[i]) => ErrorsOf(listing[i]) = {}
      /\ Cardinality(ErrorsOf(listing[i])) <= 1

\* The walk is over: a file raised at its second chunk, after it had built
\* the first, and another file has its chunks in a stream.
C17_Witness ==
  /\ entry = "repo"
  /\ AtOutputStep
  /\ \E i, j \in 1..Len(listing) :
       /\ Raising(i)
       /\ listing[i].split = BadSplit
       /\ ErrorsOf(listing[i]) # {}
       /\ HasChunks(listing[j])

\* C18: every chunk that chunk_markdown or chunk_dockerfile returns has line
\* numbers of the content it was cut from: start_line is at least 1 and
\* end_line is at most the number of lines of the content, also when the
\* content or the section ends with newlines.
C18_LinesWithinFile ==
  (MarkdownReturned \/ DockerfileReturned)
    => \A c \in Range(ret.chunks) :
         /\ c.start_line >= 1
         /\ c.end_line <= LineCount(call.f.content)

====
